---- MODULE Spec2Model ----
(***************************************************************************)
(* Coordinate descent tuner of rekall (rekallpy/rekall/tuner/              *)
(* coordinate_descent.py): CoordinateDescentTuner.line_search and          *)
(* CoordinateDescentTuner.tune_impl, as a state machine that takes one     *)
(* step per call of evaluate_config.                                       *)
(*                                                                         *)
(* Numbers.  Continuous values are exact multiples of 2^-19 of a unit      *)
(* ("ticks"); alpha, epsilon and decay_rate are powers of two, held by     *)
(* their exponent (alpha = 2^-k).  Every product, sum and midpoint the     *)
(* code computes on such inputs is exact in binary floating point, so the  *)
(* integer arithmetic below computes what the code computes.               *)
(*                                                                         *)
(* Scoring function.  eval_fn is the user's scoring callback, fixed        *)
(* lazily: the score of a configuration is chosen when the configuration   *)
(* is first evaluated and is the same whenever it is evaluated again       *)
(* (a deterministic callback, as the tuner's contract asks).               *)
(***************************************************************************)
EXTENDS Integers, Sequences, FiniteSets, TLC

\* ------------------------------------------------------------------ bounds
MaxBudget == 2
MaxSubBudget == 3

\* ------------------------------------------------------- program constants
\* tune_impl passes a sub-budget of 10 to line_search
LineSearchBudget == 10
\* alpha < .000001 ends the search: 2^-k < 10^-6 iff 2^k > 1000000
ConvergenceInverse == 1000000

Scale == 2^19
\* the scores the callback gives: three levels, two for the finest step
Scores == 0..2
CoarseScores == 0..1
FlatScores == {0}
FineExp == 4
NoScore == 0 - 1
AlphaExps == {0, 1, 2, FineExp}
DecayExps == {1, 20}

\* ------------------------------------------------------------ search space
\* A parameter is {'range': [min, max]} (a dict) or a list of choices.
RangeParam(lo, hi) == [kind |-> "range", range |-> <<lo * Scale, hi * Scale>>, list |-> <<>>]
ListParam(choices) == [kind |-> "list", range |-> <<>>, list |-> choices]

\* a list with more candidates than a line search has evaluations
ManyChoices == <<"A", "B", "C", "D", "E", "F", "G", "H", "I", "J", "K", "L">>

\* Parameter names are 1, 2, ... (ordered as the names' strings are).
SearchSpaces ==
  { <<>>,
    (1 :> RangeParam(0, 2)),
    (1 :> RangeParam(0, 2)) @@ (2 :> RangeParam(1, 2)),
    (1 :> ListParam(<<"A", "B", "C">>)),
    (1 :> ListParam(<<"A">>)),
    (1 :> ListParam(<<"A", "B">>)) @@ (2 :> RangeParam(0, 2)),
    (1 :> RangeParam(0, 2)) @@ (2 :> ListParam(ManyChoices)) }

ContinuousOnly(space) == \A k \in DOMAIN space : space[k].kind = "range"

\* the space has a list as long as ManyChoices; it is searched under a
\* scoring function that gives every configuration the same score
HasLongList(space) == \E k \in DOMAIN space : Len(space[k].list) >= Len(ManyChoices)

RECURSIVE ReverseSortedKeys(_)
\* the names in descending order
ReverseSortedKeys(keys) ==
  IF keys = {} THEN <<>>
  ELSE LET m == CHOOSE x \in keys : \A y \in keys : x >= y
       IN <<m>> \o ReverseSortedKeys(keys \ {m})

RECURSIVE SortedKeys(_)
\* sorted(list(self.search_space.keys()))
SortedKeys(keys) ==
  IF keys = {} THEN <<>>
  ELSE LET m == CHOOSE x \in keys : \A y \in keys : x <= y
       IN <<m>> \o SortedKeys(keys \ {m})

\* ------------------------------------------------------------------ options
Options ==
  { [keys |-> ks, alpha |-> a, decay_rate |-> d, init_method |-> m, interned |-> i] :
      ks \in SUBSET {"alpha", "decay_rate", "init_method"},
      a \in AlphaExps, d \in DecayExps,
      m \in {"average", "random", "bogus"}, i \in BOOLEAN }

\* One representative per behaviour: the fields of absent keys are fixed.
UsefulOptions ==
  { o \in Options :
      /\ ("alpha" \notin o.keys => o.alpha = 1)
      /\ ("decay_rate" \notin o.keys => o.decay_rate = 1)
      /\ ("init_method" \notin o.keys => o.init_method = "average" /\ o.interned)
      /\ (o.init_method = "bogus" => ~o.interned)
      /\ ({"alpha", "decay_rate"} \subseteq o.keys \/ o.keys \subseteq {"alpha", "decay_rate"}) }

VARIABLES
  search_space, budget, maximize, kwargs, score_set,
  cost, best_score, best_config, eval_fn,
  pc, result, exit_reason,
  alpha, coordinates, config, cur_score, rounds, changed,
  idx, orig_val, best_choice, max_score, choice_idx,
  ls, ret,
  init_score, sub_start_cost, sweep_evals, round_start_cost,
  eval_log, visited, run_no, first_run

vars == <<search_space, budget, maximize, kwargs, score_set,
          cost, best_score, best_config, eval_fn,
          pc, result, exit_reason,
          alpha, coordinates, config, cur_score, rounds, changed,
          idx, orig_val, best_choice, max_score, choice_idx,
          ls, ret,
          init_score, sub_start_cost, sweep_evals, round_start_cost,
          eval_log, visited, run_no, first_run>>

inputs == <<search_space, budget, maximize, kwargs, score_set>>
tuner == <<cost, best_score, best_config, eval_fn, eval_log>>
calls == <<run_no, first_run>>
sweep == <<idx, orig_val, best_choice, max_score, choice_idx>>


\* ----------------------------------------------------------------- helpers
\* a "worse" test that forgets the direction of the optimization
WorseIgnoringDirection(score, ref) == score < ref

\* "the score is worse": (self.maximize and score < cur_score) or
\*                       (not self.maximize and score > cur_score)
Worse(score, ref) == (maximize /\ score < ref) \/ (~maximize /\ score > ref)

\* an "improves" test that forgets the direction of the optimization
ImprovesIgnoringDirection(score, ref) == score > ref

\* the discrete sweep's test: (self.maximize and score > max_score) or
\*                            (not self.maximize and score < max_score)
Improves(score, ref) == (maximize /\ score > ref) \/ (~maximize /\ score < ref)

\* the scores the callback can give a configuration
PossibleScores(c) == IF c \in DOMAIN eval_fn THEN {eval_fn[c]} ELSE score_set

\* the new score improves on the tracked best under the maximize direction
BeatsBest(score) == (maximize /\ score > best_score) \/ (~maximize /\ score < best_score)

\* Tuner.evaluate_config: calls the scoring callback, counts the call,
\* tracks the best (configuration, score) pair and returns the score.
evaluate_config(c, score) ==
  /\ score \in PossibleScores(c)
  /\ eval_fn' = (c :> score) @@ eval_fn
  /\ cost' = cost + 1
  /\ eval_log' = Append(eval_log, c)
  /\ IF best_score = NoScore \/ BeatsBest(score)
     THEN best_score' = score /\ best_config' = c
     ELSE UNCHANGED <<best_score, best_config>>

\* RandomTuner.generate_configs(search_space, 1)[0]: a choice of each list,
\* a value of each range (here its minimum, midpoint or maximum).
RandomValues(param) ==
  IF param.kind = "list"
  THEN {param.list[i] : i \in DOMAIN param.list}
  ELSE {param.range[1] + (i * (param.range[2] - param.range[1])) \div 2 : i \in 0..2}

RECURSIVE RandomOver(_, _)
RandomOver(space, keys) ==
  IF keys = {} THEN {<<>>}
  ELSE LET k == CHOOSE x \in keys : \A y \in keys : x >= y
       IN {c @@ (k :> v) : c \in RandomOver(space, keys \ {k}),
                           v \in RandomValues(space[k])}

RandomConfigs(space) == RandomOver(space, DOMAIN space)

\* an initialisation that writes every midpoint under the first name
AverageConfigFirstName(space) ==
  [k \in {x \in DOMAIN space : \A y \in DOMAIN space : x <= y} |->
     (space[k].range[2] + space[k].range[1]) \div 2]

\* config[coordinate] = (maxval + minval) / 2 for every range parameter
AverageConfig(space) ==
  [k \in DOMAIN space |-> (space[k].range[2] + space[k].range[1]) \div 2]

\* the init_method in force: kwargs['init_method'], or 'average'
InitMethod == IF "init_method" \in kwargs.keys THEN kwargs.init_method ELSE "average"

\* `init_method is 'average'`: an identity test.  A caller's string that
\* equals the literal is the literal's object or another one (interned).
IsLiteral(lit) == InitMethod = lit /\ kwargs.interned

\* alpha < .000001, for alpha = 2^-k
BelowThreshold(k) == IF k > 30 THEN TRUE ELSE 2^k > ConvergenceInverse

LsIdle == [cur_param |-> 0, epsilon |-> 0, budget |-> 0, cur_score |-> NoScore,
           minval |-> 0, maxval |-> 0, delta |-> 0, orig_val |-> 0,
           cur_val |-> 0, local_cost |-> 0, prev_score |-> NoScore]

\* -------------------------------------------------------------------- Init
Init ==
  /\ search_space \in SearchSpaces
  /\ budget \in 0..MaxBudget
  /\ maximize \in BOOLEAN
  /\ kwargs \in UsefulOptions
  /\ score_set = IF HasLongList(search_space) THEN FlatScores
                 ELSE IF kwargs.alpha = FineExp THEN CoarseScores ELSE Scores
  /\ cost = 0
  /\ best_score = NoScore
  /\ best_config = <<>>
  /\ eval_fn = <<>>
  /\ pc = "start"
  /\ result = "running"
  /\ exit_reason = "none"
  /\ alpha = 0
  /\ coordinates = <<>>
  /\ config = <<>>
  /\ cur_score = NoScore
  /\ rounds = 0
  /\ changed = FALSE
  /\ idx = 0
  /\ orig_val = 0
  /\ best_choice = 0
  /\ max_score = NoScore
  /\ choice_idx = 0
  /\ ls = LsIdle
  /\ ret = <<>>
  /\ init_score = NoScore
  /\ sub_start_cost = 0
  /\ sweep_evals = <<>>
  /\ round_start_cost = 0
  /\ eval_log = <<>>
  /\ visited = <<>>
  /\ run_no = 1
  /\ first_run = <<>>

\* what tune_impl hands back: a bare `return` after the printed message, and
\* the end of the function after the rounds; both are None
ErrorReturn == "None"
CompletedReturn == "None"

\* ------------------------------------------------------- tune_impl: set-up
\* if 'alpha' not in kwargs or 'decay_rate' not in kwargs: print; return
MissingOptions ==
  /\ pc = "start"
  /\ "alpha" \notin kwargs.keys \/ "decay_rate" \notin kwargs.keys
  /\ pc' = "done"
  /\ result' = ErrorReturn
  /\ exit_reason' = "config_error"
  /\ UNCHANGED <<inputs, calls, tuner, alpha, coordinates, config, cur_score, rounds,
                 changed, sweep, ls, ret, init_score, sub_start_cost,
                 sweep_evals, round_start_cost, visited>>

\* else: print('{} is invalid init_method!'); return
InvalidInitMethod ==
  /\ pc = "start"
  /\ {"alpha", "decay_rate"} \subseteq kwargs.keys
  /\ ~IsLiteral("average") /\ ~IsLiteral("random")
  /\ pc' = "done"
  /\ result' = ErrorReturn
  /\ exit_reason' = "config_error"
  /\ alpha' = kwargs.alpha
  /\ coordinates' = SortedKeys(DOMAIN search_space)
  /\ UNCHANGED <<inputs, calls, tuner, config, cur_score, rounds,
                 changed, sweep, ls, ret, init_score, sub_start_cost,
                 sweep_evals, round_start_cost, visited>>

\* init_method is 'average' and some parameter is a list:
\* config[k] = param[0] raises NameError (k is not defined)
AverageInitRaises ==
  /\ pc = "start"
  /\ {"alpha", "decay_rate"} \subseteq kwargs.keys
  /\ IsLiteral("average")
  /\ ~ContinuousOnly(search_space)
  /\ pc' = "done"
  /\ result' = "NameError"
  /\ exit_reason' = "exception"
  /\ alpha' = kwargs.alpha
  /\ coordinates' = SortedKeys(DOMAIN search_space)
  /\ UNCHANGED <<inputs, calls, tuner, config, cur_score, rounds,
                 changed, sweep, ls, ret, init_score, sub_start_cost,
                 sweep_evals, round_start_cost, visited>>

\* the initial configuration, by the init_method in force
InitialConfigs ==
  IF IsLiteral("average") THEN {AverageConfig(search_space)}
  ELSE RandomConfigs(search_space)

\* the initial configuration is built and evaluated: cur_score = score
StartSearch ==
  /\ pc = "start"
  /\ {"alpha", "decay_rate"} \subseteq kwargs.keys
  /\ \/ IsLiteral("average") /\ ContinuousOnly(search_space)
     \/ ~IsLiteral("average") /\ IsLiteral("random")
  /\ \E c \in InitialConfigs, score \in Scores :
       /\ evaluate_config(c, score)
       /\ config' = c
       /\ cur_score' = score
       /\ init_score' = score
  /\ alpha' = kwargs.alpha
  /\ coordinates' = SortedKeys(DOMAIN search_space)
  /\ rounds' = 0
  /\ pc' = "while"
  /\ UNCHANGED <<inputs, calls, result, exit_reason, changed, sweep, ls, ret,
                 sub_start_cost, sweep_evals, round_start_cost, visited>>

\* ---------------------------------------------------- tune_impl: the rounds
\* while self.cost < self.budget
LoopGuard == cost < budget

\* a round begins: changed = False
RoundStart ==
  /\ pc = "while"
  /\ LoopGuard
  /\ changed' = FALSE
  /\ idx' = 1
  /\ round_start_cost' = cost
  /\ visited' = <<>>
  /\ pc' = "for"
  /\ UNCHANGED <<inputs, calls, tuner, result, exit_reason, alpha, coordinates, config,
                 cur_score, rounds, orig_val, best_choice, max_score, choice_idx,
                 ls, ret, init_score, sub_start_cost, sweep_evals>>

\* the while loop ends because cost >= budget; tune_impl returns (None)
BudgetExhausted ==
  /\ pc = "while"
  /\ ~LoopGuard
  /\ pc' = "done"
  /\ result' = CompletedReturn
  /\ exit_reason' = "BudgetExhausted"
  /\ UNCHANGED <<inputs, calls, tuner, alpha, coordinates, config, cur_score, rounds,
                 changed, sweep, ls, ret, init_score, sub_start_cost,
                 sweep_evals, round_start_cost, visited>>

\* if self.cost > self.budget: break
BreakGuard == cost > budget

\* the for loop is left: every coordinate was visited, or the break
RoundLeave ==
  /\ pc = "for"
  /\ idx > Len(coordinates) \/ BreakGuard
  /\ pc' = "round_end"
  /\ UNCHANGED <<inputs, calls, tuner, result, exit_reason, alpha, coordinates, config,
                 cur_score, rounds, changed, sweep, ls, ret, init_score,
                 sub_start_cost, sweep_evals, round_start_cost, visited>>

\* a list parameter: max_score = cur_score; best_choice = orig_val
StartDiscrete ==
  /\ pc = "for"
  /\ idx <= Len(coordinates) /\ ~BreakGuard
  /\ search_space[coordinates[idx]].kind = "list"
  /\ orig_val' = config[coordinates[idx]]
  /\ best_choice' = config[coordinates[idx]]
  /\ max_score' = cur_score
  /\ choice_idx' = 1
  /\ sub_start_cost' = cost
  /\ sweep_evals' = <<>>
  /\ visited' = Append(visited, coordinates[idx])
  /\ pc' = "dsweep"
  /\ UNCHANGED <<inputs, calls, tuner, result, exit_reason, alpha, coordinates, config,
                 cur_score, rounds, changed, idx, ls, ret, init_score,
                 round_start_cost>>

\* a call that names the last coordinate whatever the one being visited
LineSearchArgsLastCoordinate ==
  [LsIdle EXCEPT !.cur_param = coordinates[Len(coordinates)], !.epsilon = alpha,
                 !.budget = LineSearchBudget, !.cur_score = cur_score]

\* the arguments of the call: (config, coordinate, alpha, 10,
\*                             cur_score = cur_score)
LineSearchArgs ==
  [LsIdle EXCEPT !.cur_param = coordinates[idx], !.epsilon = alpha,
                 !.budget = LineSearchBudget, !.cur_score = cur_score]

\* a range parameter: self.line_search(config, coordinate, alpha, 10,
\*                                     cur_score = cur_score)
StartLineSearch ==
  /\ pc = "for"
  /\ idx <= Len(coordinates) /\ ~BreakGuard
  /\ search_space[coordinates[idx]].kind = "range"
  /\ orig_val' = config[coordinates[idx]]
  /\ ls' = LineSearchArgs
  /\ sub_start_cost' = cost
  /\ visited' = Append(visited, coordinates[idx])
  /\ pc' = "ls_entry"
  /\ UNCHANGED <<inputs, calls, tuner, result, exit_reason, alpha, coordinates, config,
                 cur_score, rounds, changed, idx, best_choice, max_score,
                 choice_idx, ret, init_score, sweep_evals, round_start_cost>>

\* the choices of the list still to try: those from choice_idx on that
\* differ from orig_val (if choice == orig_val: continue)
ChoicesLeft ==
  {j \in DOMAIN search_space[coordinates[idx]].list :
     j >= choice_idx /\ search_space[coordinates[idx]].list[j] # orig_val}

\* a sweep that also keeps a choice whose score only equals max_score
SweepKeepsTies(score) == ~Worse(score, max_score)

\* the sweep keeps a choice whose score beats max_score
SweepKeeps(score) == Improves(score, max_score)

\* one choice of the list is tried and evaluated
DiscreteStep ==
  /\ pc = "dsweep"
  /\ ChoicesLeft # {}
  /\ LET j == CHOOSE x \in ChoicesLeft : \A y \in ChoicesLeft : x <= y
         choice == search_space[coordinates[idx]].list[j]
         c == [config EXCEPT ![coordinates[idx]] = choice]
     IN /\ config' = c
        /\ \E score \in Scores :
             /\ evaluate_config(c, score)
             /\ IF SweepKeeps(score)
                THEN best_choice' = choice /\ max_score' = score
                ELSE UNCHANGED <<best_choice, max_score>>
        /\ choice_idx' = j + 1
        /\ sweep_evals' = Append(sweep_evals, choice)
  /\ UNCHANGED <<inputs, calls, pc, result, exit_reason, alpha, coordinates, cur_score,
                 rounds, changed, idx, orig_val, ls, ret, init_score,
                 sub_start_cost, round_start_cost, visited>>

\* the sweep is over: config[coordinate] = best_choice; cur_score = max_score
DiscreteFinish ==
  /\ pc = "dsweep"
  /\ ChoicesLeft = {}
  /\ changed' = (changed \/ best_choice # orig_val)
  /\ config' = [config EXCEPT ![coordinates[idx]] = best_choice]
  /\ cur_score' = max_score
  /\ idx' = idx + 1
  /\ pc' = "for"
  /\ UNCHANGED <<inputs, calls, tuner, result, exit_reason, alpha, coordinates, rounds,
                 orig_val, best_choice, max_score, choice_idx, ls, ret,
                 init_score, sub_start_cost, sweep_evals, round_start_cost, visited>>

\* line_search has returned: config[coordinate] = best_choice;
\* cur_score = max_score
LineSearchReturn ==
  /\ pc = "ls_ret"
  /\ best_choice' = ret[1]
  /\ max_score' = ret[2]
  /\ changed' = (changed \/ ret[1] # orig_val)
  /\ config' = [config EXCEPT ![coordinates[idx]] = ret[1]]
  /\ cur_score' = ret[2]
  /\ idx' = idx + 1
  /\ ls' = LsIdle
  /\ ret' = <<>>
  /\ pc' = "for"
  /\ UNCHANGED <<inputs, calls, tuner, result, exit_reason, alpha, coordinates, rounds,
                 orig_val, choice_idx, init_score, sub_start_cost, sweep_evals,
                 round_start_cost, visited>>

\* a coordinate changed in this round: rounds += 1
RoundChanged ==
  /\ pc = "round_end"
  /\ changed
  /\ rounds' = rounds + 1
  /\ pc' = "while"
  /\ UNCHANGED <<inputs, calls, tuner, result, exit_reason, alpha, coordinates, config,
                 cur_score, changed, sweep, ls, ret, init_score, sub_start_cost,
                 sweep_evals, round_start_cost, visited>>

\* no coordinate changed: alpha *= decay_rate, still at least .000001
RoundDecay ==
  /\ pc = "round_end"
  /\ ~changed
  /\ ~BelowThreshold(alpha + kwargs.decay_rate)
  /\ alpha' = alpha + kwargs.decay_rate
  /\ rounds' = rounds + 1
  /\ pc' = "while"
  /\ UNCHANGED <<inputs, calls, tuner, result, exit_reason, coordinates, config,
                 cur_score, changed, sweep, ls, ret, init_score, sub_start_cost,
                 sweep_evals, round_start_cost, visited>>

\* no coordinate changed and alpha fell below .000001: break; returns (None)
RoundConverged ==
  /\ pc = "round_end"
  /\ ~changed
  /\ BelowThreshold(alpha + kwargs.decay_rate)
  /\ alpha' = alpha + kwargs.decay_rate
  /\ pc' = "done"
  /\ result' = CompletedReturn
  /\ exit_reason' = "Converged"
  /\ UNCHANGED <<inputs, calls, tuner, coordinates, config, cur_score, rounds,
                 changed, sweep, ls, ret, init_score, sub_start_cost,
                 sweep_evals, round_start_cost, visited>>


\* ------------------------------------------------------------- line_search
\* delta = epsilon * Y, for epsilon = 2^-k and Y = maxval - minval
Delta(k, minval, maxval) == (maxval - minval) \div (2^k)

\* a test that gives up as soon as one of the two probes leaves the range
TooNarrowEitherSide(orig, delta, minval, maxval) ==
  orig + delta > maxval \/ orig - delta < minval

\* the coordinate's range is too narrow for the step
TooNarrow(orig, delta, minval, maxval) ==
  orig + delta > maxval /\ orig - delta < minval

\* if orig_val + delta > maxval and orig_val - delta < minval:
\*     return orig_val, cur_score
LineSearchTooNarrow ==
  /\ pc = "ls_entry"
  /\ LET minval == search_space[ls.cur_param].range[1]
         maxval == search_space[ls.cur_param].range[2]
         delta == Delta(ls.epsilon, minval, maxval)
         orig == config[ls.cur_param]
     IN /\ TooNarrow(orig, delta, minval, maxval)
        /\ ls' = [ls EXCEPT !.minval = minval, !.maxval = maxval, !.delta = delta,
                            !.orig_val = orig, !.cur_val = orig]
        /\ ret' = <<orig, ls.cur_score>>
  /\ pc' = "ls_ret"
  /\ UNCHANGED <<inputs, calls, tuner, result, exit_reason, alpha, coordinates, config,
                 cur_score, rounds, changed, sweep, init_score, sub_start_cost,
                 sweep_evals, round_start_cost, visited>>

\* cur_val = orig_val + delta; config[cur_param] = cur_val; local_cost = 0
LineSearchBegin ==
  /\ pc = "ls_entry"
  /\ LET minval == search_space[ls.cur_param].range[1]
         maxval == search_space[ls.cur_param].range[2]
         delta == Delta(ls.epsilon, minval, maxval)
         orig == config[ls.cur_param]
     IN /\ ~TooNarrow(orig, delta, minval, maxval)
        /\ ls' = [ls EXCEPT !.minval = minval, !.maxval = maxval, !.delta = delta,
                            !.orig_val = orig, !.cur_val = orig + delta,
                            !.local_cost = 0]
        /\ config' = [config EXCEPT ![ls.cur_param] = orig + delta]
  /\ pc' = "ls_probe1"
  /\ UNCHANGED <<inputs, calls, tuner, result, exit_reason, alpha, coordinates,
                 cur_score, rounds, changed, sweep, ret, init_score,
                 sub_start_cost, sweep_evals, round_start_cost, visited>>

\* the first probe, at orig_val + delta, is evaluated; if its score is worse
\* the other direction is set up: delta = -1 * delta
LineSearchProbe1 ==
  /\ pc = "ls_probe1"
  /\ \E score \in Scores :
       /\ evaluate_config(config, score)
       /\ IF Worse(score, ls.cur_score)
          THEN /\ ls' = [ls EXCEPT !.local_cost = 1, !.delta = 0 - ls.delta,
                                   !.cur_val = ls.orig_val - ls.delta]
               /\ config' = [config EXCEPT ![ls.cur_param] = ls.orig_val - ls.delta]
               /\ pc' = "ls_probe2"
          ELSE /\ ls' = [ls EXCEPT !.local_cost = 1, !.prev_score = score]
               /\ config' = config
               /\ pc' = "ls_loop"
  /\ UNCHANGED <<inputs, calls, result, exit_reason, alpha, coordinates,
                 cur_score, rounds, changed, sweep, ret, init_score,
                 sub_start_cost, sweep_evals, round_start_cost, visited>>

\* a return that hands back the probed value with the score passed in
NeitherDirectionReturnsProbe == <<ls.cur_val, ls.cur_score>>

\* neither direction works: return orig_val, cur_score
NeitherDirectionReturn == <<ls.orig_val, ls.cur_score>>

\* the second probe, at orig_val - delta, is evaluated; if it is worse too:
\* return orig_val, cur_score
LineSearchProbe2 ==
  /\ pc = "ls_probe2"
  /\ \E score \in Scores :
       /\ evaluate_config(config, score)
       /\ IF Worse(score, ls.cur_score)
          THEN /\ ls' = [ls EXCEPT !.local_cost = 2]
               /\ ret' = NeitherDirectionReturn
               /\ pc' = "ls_ret"
          ELSE /\ ls' = [ls EXCEPT !.local_cost = 2, !.prev_score = score]
               /\ ret' = ret
               /\ pc' = "ls_loop"
  /\ UNCHANGED <<inputs, calls, result, exit_reason, alpha, coordinates, config,
                 cur_score, rounds, changed, sweep, init_score,
                 sub_start_cost, sweep_evals, round_start_cost, visited>>

\* a loop test that is off by one
SubBudgetLeftOffByOne == ls.local_cost <= ls.budget

\* while local_cost < budget
SubBudgetLeft == ls.local_cost < ls.budget

\* if cur_val + delta > maxval or cur_val + delta < minval: break
AtBoundary == ls.cur_val + ls.delta > ls.maxval \/ ls.cur_val + ls.delta < ls.minval

\* one more step: cur_val += delta, evaluated; a worse score goes back one
\* step (cur_val -= delta) and ends the loop, another becomes prev_score
LineSearchExtend ==
  /\ pc = "ls_loop"
  /\ SubBudgetLeft /\ ~AtBoundary
  /\ LET c == [config EXCEPT ![ls.cur_param] = ls.cur_val + ls.delta]
     IN /\ config' = c
        /\ \E score \in Scores :
             /\ evaluate_config(c, score)
             /\ IF Worse(score, ls.cur_score)
                THEN /\ ls' = [ls EXCEPT !.local_cost = ls.local_cost + 1]
                     /\ ret' = <<ls.cur_val, ls.prev_score>>
                     /\ pc' = "ls_ret"
                ELSE /\ ls' = [ls EXCEPT !.local_cost = ls.local_cost + 1,
                                         !.cur_val = ls.cur_val + ls.delta,
                                         !.prev_score = score]
                     /\ ret' = ret
                     /\ pc' = "ls_loop"
  /\ UNCHANGED <<inputs, calls, result, exit_reason, alpha, coordinates,
                 cur_score, rounds, changed, sweep, init_score,
                 sub_start_cost, sweep_evals, round_start_cost, visited>>

\* the loop ends without a step: return cur_val, prev_score
LineSearchStop ==
  /\ pc = "ls_loop"
  /\ ~SubBudgetLeft \/ AtBoundary
  /\ ret' = <<ls.cur_val, ls.prev_score>>
  /\ pc' = "ls_ret"
  /\ UNCHANGED <<inputs, calls, tuner, result, exit_reason, alpha, coordinates, config,
                 cur_score, rounds, changed, sweep, ls, init_score,
                 sub_start_cost, sweep_evals, round_start_cost, visited>>

LineSearchNext ==
  \/ LineSearchTooNarrow
  \/ LineSearchBegin
  \/ LineSearchProbe1
  \/ LineSearchProbe2
  \/ LineSearchExtend
  \/ LineSearchStop

\* ----------------------------------------------------------- specifications
Next ==
  \/ MissingOptions
  \/ InvalidInitMethod
  \/ AverageInitRaises
  \/ StartSearch
  \/ RoundStart
  \/ BudgetExhausted
  \/ RoundLeave
  \/ StartDiscrete
  \/ StartLineSearch
  \/ DiscreteStep
  \/ DiscreteFinish
  \/ LineSearchReturn
  \/ RoundChanged
  \/ RoundDecay
  \/ RoundConverged
  \/ LineSearchTooNarrow
  \/ LineSearchBegin
  \/ LineSearchProbe1
  \/ LineSearchProbe2
  \/ LineSearchExtend
  \/ LineSearchStop

\* a run of tune_impl
Spec == Init /\ [][Next]_vars

\* Tuner.tune called a second time on the same tuner, with the same options:
\* the shared state is set up again (cost = 0, best = None) and tune_impl
\* runs anew; the scoring function is the same function.  What the first
\* call did is kept in first_run.  The repeated call is followed for the
\* options whose init_method is "average" (given or by default).
TuneAgain ==
  /\ pc = "done"
  /\ run_no = 1
  /\ InitMethod = "average"
  /\ run_no' = 2
  /\ first_run' = [log |-> eval_log, config |-> config, score |-> cur_score,
                   cost |-> cost, best_config |-> best_config,
                   best_score |-> best_score, result |-> result]
  /\ cost' = 0
  /\ best_score' = NoScore
  /\ best_config' = <<>>
  /\ eval_log' = <<>>
  /\ pc' = "start"
  /\ result' = "running"
  /\ exit_reason' = "none"
  /\ alpha' = 0
  /\ coordinates' = <<>>
  /\ config' = <<>>
  /\ cur_score' = NoScore
  /\ rounds' = 0
  /\ changed' = FALSE
  /\ idx' = 0
  /\ orig_val' = 0
  /\ best_choice' = 0
  /\ max_score' = NoScore
  /\ choice_idx' = 0
  /\ ls' = LsIdle
  /\ ret' = <<>>
  /\ init_score' = NoScore
  /\ sub_start_cost' = 0
  /\ sweep_evals' = <<>>
  /\ round_start_cost' = 0
  /\ visited' = <<>>
  /\ UNCHANGED <<inputs, eval_fn>>

NextTwice ==
  \/ Next
  \/ TuneAgain

\* two calls of tune, one after the other
SpecTwice == Init /\ [][NextTwice]_vars

\* One call of line_search on its own: a range parameter, a current value in
\* [min, max], any epsilon, sub-budget and direction; cur_score is the score
\* of the configuration passed in.
LineSearchSpaces == {(1 :> RangeParam(0, 2)), (1 :> RangeParam(1, 2))}

LineSearchValues(param) ==
  {param.range[1] + (i * (param.range[2] - param.range[1])) \div 4 : i \in 0..4}

InitLS ==
  /\ search_space \in LineSearchSpaces
  /\ budget = 0
  /\ maximize \in BOOLEAN
  /\ kwargs \in {o \in UsefulOptions : o.keys = {}}
  /\ score_set = Scores
  /\ cost = 0
  /\ \E v \in LineSearchValues(search_space[1]), s \in Scores :
       /\ config = (1 :> v)
       /\ eval_fn = ((1 :> v) :> s)
       /\ best_score = s
       /\ best_config = (1 :> v)
       /\ cur_score = s
       /\ init_score = s
       /\ \E e \in AlphaExps, b \in 0..MaxSubBudget :
            ls = [LsIdle EXCEPT !.cur_param = 1, !.epsilon = e, !.budget = b,
                                !.cur_score = s]
  /\ pc = "ls_entry"
  /\ result = "running"
  /\ exit_reason = "none"
  /\ alpha = 0
  /\ coordinates = <<1>>
  /\ rounds = 0
  /\ changed = FALSE
  /\ idx = 1
  /\ orig_val = 0
  /\ best_choice = 0
  /\ max_score = NoScore
  /\ choice_idx = 0
  /\ ret = <<>>
  /\ sub_start_cost = 0
  /\ sweep_evals = <<>>
  /\ round_start_cost = 0
  /\ eval_log = <<>>
  /\ visited = <<>>
  /\ run_no = 1
  /\ first_run = <<>>

SpecLS == InitLS /\ [][LineSearchNext]_vars


\* a run in which every step that can be taken is eventually taken: the code
\* is sequential and never waits
FairSpec == Spec /\ WF_vars(Next)

\* ------------------------------------------------------------------ claims
AtLeastAsGood(a, b) == IF maximize THEN a >= b ELSE a <= b
StrictlyBetter(a, b) == IF maximize THEN a > b ELSE a < b

InLineSearch == pc \in {"ls_entry", "ls_probe1", "ls_probe2", "ls_loop", "ls_ret"}
InSubRoutine == pc = "dsweep" \/ InLineSearch

\* C1: the value line_search returns lies within [min, max] of its
\* coordinate, whenever the coordinate's current value did.
C1_ReturnedValueInRange ==
  pc = "ls_ret" => ret[1] >= ls.minval /\ ret[1] <= ls.maxval

\* C2: with only continuous parameters, the number of evaluations is at most
\* budget + 10 in every state of a tune run.
C2_CostWithinBudgetPlusTen ==
  ContinuousOnly(search_space) => cost <= budget + 10

\* C2 witness: a run over continuous parameters that overshoots the budget by
\* the full ten evaluations.
C2_OvershootByTen ==
  /\ ContinuousOnly(search_space)
  /\ DOMAIN search_space # {}
  /\ cost = budget + 10

\* C3: every discrete sweep and every line_search in progress was started
\* while cost < budget.
C3_StartedBelowBudget ==
  InSubRoutine => sub_start_cost < budget

\* C4: the score line_search returns is at least as good as the cur_score
\* passed in, and it is the callback's score of the configuration with the
\* coordinate set to the returned value.
C4_ReturnedScore ==
  pc = "ls_ret" =>
    /\ AtLeastAsGood(ret[2], ls.cur_score)
    /\ LET c == [config EXCEPT ![ls.cur_param] = ret[1]]
       IN c \in DOMAIN eval_fn /\ eval_fn[c] = ret[2]

\* C4 witness: line_search returns after going back one step: the returned
\* value is neither the original one nor the one left in the configuration.
C4_ReturnedAfterBacktrack ==
  /\ pc = "ls_ret"
  /\ ret[1] # ls.orig_val
  /\ ret[1] # config[ls.cur_param]

\* C5: cur_score never becomes worse from one step of a tune run to the
\* next, so it is always at least as good as the initial configuration's.
C5_ScoreNeverWorse ==
  /\ [][cur_score # NoScore => AtLeastAsGood(cur_score', cur_score)]_vars
  /\ [](init_score # NoScore => AtLeastAsGood(cur_score, init_score))

\* C5 witness: a completed search whose final score is strictly better than
\* the initial configuration's.
C5_FinishedBetter ==
  /\ pc = "done"
  /\ init_score # NoScore
  /\ StrictlyBetter(cur_score, init_score)

\* C6: a call of line_search makes at most sub-budget evaluations.
C6_WithinSubBudget ==
  InLineSearch => ls.local_cost <= ls.budget


\* the search ran its rounds and ended by itself
Completed == pc = "done" /\ exit_reason \in {"BudgetExhausted", "Converged"}

\* C7: when a search has completed, no configuration evaluated during the run
\* scored strictly better than the final one: cur_score is the tracked best.
C7_FinalIsBest ==
  Completed =>
    /\ cur_score = best_score
    /\ \A c \in DOMAIN eval_fn : ~StrictlyBetter(eval_fn[c], cur_score)

\* alpha and decay_rate are given and init_method is recognised
RecognisedOptions ==
  /\ {"alpha", "decay_rate"} \subseteq kwargs.keys
  /\ IsLiteral("average") \/ IsLiteral("random")

\* C8: with alpha and decay_rate given, whatever the search space, tune_impl
\* ends because cost >= budget or because alpha fell below 1e-6.
C8_EndsExhaustedOrConverged ==
  pc = "done" /\ RecognisedOptions =>
    \/ exit_reason = "BudgetExhausted" /\ cost >= budget
    \/ exit_reason = "Converged" /\ BelowThreshold(alpha)

\* the candidates of the list being swept, other than the current value
OtherChoices ==
  SelectSeq(search_space[coordinates[idx]].list, LAMBDA x : x # orig_val)

\* the callback's score of the configuration with the swept coordinate at ch
ChoiceScore(ch) == eval_fn[[config EXCEPT ![coordinates[idx]] = ch]]

\* the candidates that strictly improve on cur_score
ImprovingChoices ==
  {i \in DOMAIN OtherChoices : StrictlyBetter(ChoiceScore(OtherChoices[i]), cur_score)}

\* C9: when the sweep of a discrete coordinate ends, every candidate other
\* than the current value has been evaluated exactly once, in order, and
\* nothing else; the coordinate is set to the (first) candidate with the best
\* score if some candidate strictly improves on cur_score, and cur_score to
\* that score; otherwise the value and cur_score stay.
C9_DiscreteSweep ==
  [][pc = "dsweep" /\ pc' = "for" =>
       /\ sweep_evals = OtherChoices
       /\ cost = sub_start_cost + Len(OtherChoices)
       /\ IF ImprovingChoices = {}
          THEN /\ config'[coordinates[idx]] = orig_val
               /\ cur_score' = cur_score
          ELSE \E i \in ImprovingChoices :
                 /\ config'[coordinates[idx]] = OtherChoices[i]
                 /\ cur_score' = ChoiceScore(OtherChoices[i])
                 /\ \A j \in DOMAIN OtherChoices :
                      /\ AtLeastAsGood(cur_score', ChoiceScore(OtherChoices[j]))
                      /\ (j < i => StrictlyBetter(cur_score', ChoiceScore(OtherChoices[j])))
    ]_vars

\* C9 witness: candidates A, B, C scoring 0, 2, 1 when maximizing, current
\* value A: the round selects B at a cost of exactly 2 evaluations.
C9_SelectsBOfABC ==
  /\ pc = "for"
  /\ idx = 2
  /\ search_space = (1 :> ListParam(<<"A", "B", "C">>))
  /\ maximize
  /\ orig_val = "A"
  /\ eval_fn = ((1 :> "A") :> 0) @@ ((1 :> "B") :> 2) @@ ((1 :> "C") :> 1)
  /\ config = (1 :> "B")
  /\ cur_score = 2
  /\ cost = sub_start_cost + 2

\* the options lack alpha or decay_rate, or init_method is neither
\* "average" nor "random"
BadOptions ==
  \/ "alpha" \notin kwargs.keys
  \/ "decay_rate" \notin kwargs.keys
  \/ InitMethod \notin {"average", "random"}

\* C10: with bad options tune_impl ends before any evaluation and what it
\* hands back differs from what a completed search hands back.
C10_ErrorSurfaced ==
  pc = "done" /\ BadOptions =>
    /\ cost = 0
    /\ result # CompletedReturn

\* C11: with budget 0 and valid options a run ends after exactly one
\* evaluation, that of the initial configuration: cost is 1, no round was
\* entered and no coordinate was searched.
C11_BudgetZeroOneEvaluation ==
  pc = "done" /\ budget = 0 /\ RecognisedOptions =>
    /\ cost = 1
    /\ Len(eval_log) = 1
    /\ rounds = 0
    /\ visited = <<>>

\* Once the initial configuration is built, a run with budget 0 ends after
\* that one evaluation without a round.
BudgetZeroAfterInitial ==
  pc \notin {"start", "done"} /\ budget = 0 =>
    /\ pc = "while"
    /\ cost = 1
    /\ eval_log = <<config>>
    /\ rounds = 0
    /\ visited = <<>>

\* C12: every configuration handed to evaluate_config, the initial one
\* included, has exactly the parameter names of the search space as its keys.
C12_EvaluatedConfigsComplete ==
  \A i \in DOMAIN eval_log : DOMAIN eval_log[i] = DOMAIN search_space

\* C12 witness: in a space of a list and a range, the initial configuration,
\* a candidate of the list and a probe of the range have been evaluated.
C12_MixedSpaceEvaluated ==
  /\ \E k \in DOMAIN search_space : search_space[k].kind = "list"
  /\ \E k \in DOMAIN search_space : search_space[k].kind = "range"
  /\ pc = "ls_loop"
  /\ Len(visited) = 2
  /\ Len(eval_log) >= 3

\* C13: a second run with the same search space, budget, direction, options
\* (init_method "average") and scoring function evaluates the same
\* configurations in the same order as the first and ends with the same
\* configuration, score and cost; within a round the coordinates are
\* started in ascending order of their names, each at most once.
C13_SameRunTwice ==
  /\ run_no = 2 /\ InitMethod = "average" =>
       /\ Len(eval_log) <= Len(first_run.log)
       /\ eval_log = SubSeq(first_run.log, 1, Len(eval_log))
       /\ pc = "done" =>
            /\ eval_log = first_run.log
            /\ config = first_run.config
            /\ cur_score = first_run.score
            /\ cost = first_run.cost
            /\ best_config = first_run.best_config
            /\ best_score = first_run.best_score
            /\ result = first_run.result
  /\ \A i, j \in DOMAIN visited : i < j => visited[i] < visited[j]

\* C13 witness: the second of two runs over two range parameters has
\* completed after a round that visited both coordinates and changed one.
C13_SecondRunCompleted ==
  /\ run_no = 2
  /\ InitMethod = "average"
  /\ Completed
  /\ visited = <<1, 2>>
  /\ rounds >= 1
  /\ config # AverageConfig(search_space)
  /\ Len(eval_log) >= 4

\* C14: when line_search returns, the configuration it was given holds the
\* returned value at the searched coordinate, whatever the return path.
C14_ConfigHoldsReturnedValue ==
  pc = "ls_ret" => config[ls.cur_param] = ret[1]

\* C15: in the extension phase of line_search a step is kept only if its score
\* is at least as good as the previous accepted step's; the first step that
\* scores strictly worse than the previous one is undone, and the previous
\* value and its score are returned.
C15_ExtendsWhileNoWorseThanPrevious ==
  [][pc = "ls_loop" /\ cost' = cost + 1 =>
       LET score == eval_fn'[config']
       IN IF StrictlyBetter(ls.prev_score, score)
          THEN /\ pc' = "ls_ret"
               /\ ret' = <<ls.cur_val, ls.prev_score>>
          ELSE /\ pc' = "ls_loop"
               /\ ls'.cur_val = ls.cur_val + ls.delta
               /\ ls'.prev_score = score
    ]_vars

\* C16: when the first probe of line_search, at orig_val + delta, scores no
\* better than cur_score (an equal score included), the next evaluation is
\* at orig_val - delta; when that one scores no better either, the original
\* value and cur_score are returned.
C16_OtherDirectionUnlessBetter ==
  [][/\ pc = "ls_probe1" /\ cost' = cost + 1
        /\ ~StrictlyBetter(eval_fn'[config], ls.cur_score)
        => /\ pc' = "ls_probe2"
           /\ config'[ls.cur_param] = ls.orig_val - ls.delta
     /\ pc = "ls_probe2" /\ cost' = cost + 1
        /\ ~StrictlyBetter(eval_fn'[config], ls.cur_score)
        => /\ pc' = "ls_ret"
           /\ ret' = <<ls.orig_val, ls.cur_score>>
    ]_vars

\* the step of the call of line_search in progress leaves the range on both
\* sides of the value the coordinate had at the call
BothProbesOutside ==
  LET minval == search_space[ls.cur_param].range[1]
      maxval == search_space[ls.cur_param].range[2]
      step == (maxval - minval) \div (2^ls.epsilon)
  IN ls.orig_val + step > maxval /\ ls.orig_val - step < minval

\* C17: when orig_val + delta > max and orig_val - delta < min, line_search
\* returns the original value and cur_score without an evaluation and leaves
\* the configuration as it was; in every other case it has made at least one
\* evaluation when it returns.
C17_NoEvaluationIffTooNarrow ==
  pc = "ls_ret" =>
    IF BothProbesOutside
    THEN /\ ret = <<ls.orig_val, ls.cur_score>>
         /\ cost = sub_start_cost
         /\ ls.local_cost = 0
         /\ config[ls.cur_param] = ls.orig_val
    ELSE /\ cost >= sub_start_cost + 1
         /\ ls.local_cost >= 1

\* C17 witness: a call with epsilon = 1 in the middle of the range returned
\* at once.
C17_ReturnedAtOnce ==
  /\ pc = "ls_ret"
  /\ BothProbesOutside
  /\ ls.epsilon = 0
  /\ ls.orig_val > ls.minval /\ ls.orig_val < ls.maxval
  /\ cost = sub_start_cost

\* C18: a step of the sweep changes the working configuration at most at the
\* coordinate being searched, and every configuration evaluated during a
\* coordinate's discrete sweep or line_search has all other coordinates at
\* the values they hold throughout it.
C18_OnlySearchedCoordinateChanges ==
  /\ [][pc # "start" =>
          \A k \in DOMAIN config :
            config'[k] # config[k] => InSubRoutine /\ k = coordinates[idx]]_vars
  /\ [](InSubRoutine =>
          \A i \in (sub_start_cost + 1)..Len(eval_log) :
            \A k \in DOMAIN config \ {coordinates[idx]} :
              eval_log[i][k] = config[k])

\* C18 witness: in a space of two ranges the first coordinate was changed
\* and the line search of the second has evaluated two configurations.
C18_SecondCoordinateSearched ==
  /\ pc = "ls_loop"
  /\ ContinuousOnly(search_space)
  /\ visited = <<1, 2>>
  /\ changed
  /\ cost >= sub_start_cost + 2

\* the search space has a list parameter and a range parameter
MixedSpace ==
  /\ \E k \in DOMAIN search_space : search_space[k].kind = "list"
  /\ \E k \in DOMAIN search_space : search_space[k].kind = "range"

\* the number of candidates of the longest list of the search space
LargestCandidateCount ==
  CHOOSE n \in 0..Len(ManyChoices) :
    /\ \A k \in DOMAIN search_space : Len(search_space[k].list) <= n
    /\ n = 0 \/ \E k \in DOMAIN search_space : Len(search_space[k].list) = n

\* C19: in a space mixing list and range parameters, with budget >= 1, the
\* number of evaluations never exceeds the budget by more than
\* max(10, largest number of candidates of a list).
C19_MixedOvershootBounded ==
  MixedSpace /\ budget >= 1 =>
    cost <= budget + (IF LargestCandidateCount > 10 THEN LargestCandidateCount ELSE 10)

\* C19 witness: a sweep of a list of twelve candidates, started when cost
\* had reached the budget, has taken cost past budget + 10.
C19_SweepOvershootsTen ==
  /\ MixedSpace
  /\ budget >= 1
  /\ pc = "dsweep"
  /\ sub_start_cost = budget
  /\ cost = budget + 11
  /\ LargestCandidateCount = 12

\* the sweep is between two coordinates, between two rounds, or over
AtCoordinateBoundary == pc \in {"while", "for", "round_end"} \/ Completed

\* C20: at every coordinate boundary of the sweep, before a coordinate is
\* started and after it is finished, cur_score is the scoring function's
\* score of the working configuration.
C20_ScoreOfWorkingConfiguration ==
  AtCoordinateBoundary =>
    /\ config \in DOMAIN eval_fn
    /\ eval_fn[config] = cur_score

\* C20 witness: a line search that went back one step has just finished
\* with a new value and a strictly better score.
C20_AfterBacktrack ==
  /\ pc = "for"
  /\ idx = 2
  /\ search_space[coordinates[1]].kind = "range"
  /\ config[coordinates[1]] # orig_val
  /\ eval_log[Len(eval_log)] # config
  /\ StrictlyBetter(cur_score, init_score)

\* Past the set-up, a run of tune_impl ends, and every round spends an
\* evaluation or decays alpha.
SearchTerminates == (pc = "while") ~> Completed
RoundMakesProgress ==
  [][pc = "round_end" /\ pc' # "round_end" =>
       cost > round_start_cost \/ alpha' = alpha + kwargs.decay_rate]_vars

====
